---- MODULE Spec2Model ----
(***************************************************************************)
(* Model of people-search: the migration runner                            *)
(* (opensearch_settings/migrations.py): Migrations.migrate, create_index,  *)
(* update and handleException, with the document transforms update applies *)
(* to the on-disk schema files; the indexer (data_indexer/indexer.py):      *)
(* fetch_and_index_users; and the query service                            *)
(* (data_retrieval/controller.py): search_people.  Each is a process of    *)
(* its own, with its own next-state relation, on one engine.               *)
(*                                                                         *)
(* Text is a sequence of one-character strings.  A JSON value is a record  *)
(* with one field: [s |-> text] a string, [l |-> text] a literal (number,  *)
(* true, false, null), [a |-> <<v1, ...>>] an array, [o |-> <<<<k1, v1>>,  *)
(* ...>>] an object, its keys text, in insertion order as a Python dict.   *)
(***************************************************************************)
EXTENDS Integers, Sequences, FiniteSets, TLC

(***************************************************************************)
(* Bounds of the model.                                                    *)
(***************************************************************************)
MaxFaults == 2
MaxScripts == 2
MaxTemplates == 2
MaxNodes == 5
MaxChars == 4
MaxChunks == 2

(***************************************************************************)
(* Text constants.                                                         *)
(***************************************************************************)
NL == "\n"
QUOTE == "\""
BSL == "\\"

K_analysis == <<"a","n","a","l","y","s","i","s">>
K_analyzer == <<"a","n","a","l","y","z","e","r">>
K_filter == <<"f","i","l","t","e","r">>
K_phonetic_analyzer == <<"p","h","o","n","e","t","i","c","_","a","n","a","l","y","z","e","r">>
K_metaphone_filter == <<"m","e","t","a","p","h","o","n","e","_","f","i","l","t","e","r">>
K_synonym_filter == <<"s","y","n","o","n","y","m","_","f","i","l","t","e","r">>
K_stop_filter == <<"s","t","o","p","_","f","i","l","t","e","r">>
K_synonyms == <<"s","y","n","o","n","y","m","s">>
K_stopwords == <<"s","t","o","p","w","o","r","d","s">>
K_fields == <<"f","i","e","l","d","s">>
K_ph == <<"p","h">>
K_type == <<"t","y","p","e">>
K_index == <<"i","n","d","e","x">>
K_knn == <<"k","n","n">>
K_script == <<"s","c","r","i","p","t">>
K_lang == <<"l","a","n","g">>
K_source == <<"s","o","u","r","c","e">>
K_mustache == <<"m","u","s","t","a","c","h","e">>
K_settings == <<"s","e","t","t","i","n","g","s">>
K_q == <<"q">>
K_b == <<"b">>

INDEX_NAME == <<"e","x","p","e","r","t","i","s","e">>

QUERY_VECTOR == <<"Q","U","E","R","Y","_","V","E","C","T","O","R">>
QUERY_FILTERS == <<"Q","U","E","R","Y","_","F","I","L","T","E","R","S">>
QUERY_MUSTS == <<"Q","U","E","R","Y","_","M","U","S","T","S">>
QUERY_SHOULDS == <<"Q","U","E","R","Y","_","S","H","O","U","L","D","S">>
QUERY_FMNOS == <<"Q","U","E","R","Y","_","F","M","N","O","S">>
QUERY_WORDS == <<"Q","U","E","R","Y","_","W","O","R","D","S">>

IndexDot == K_index \o <<".">>

non_updateable_settings ==
    << IndexDot \o K_knn,
       IndexDot \o <<"n","u","m","b","e","r","_","o","f","_","s","h","a","r","d","s">>,
       IndexDot \o <<"c","o","d","e","c">>,
       IndexDot \o <<"m","a","p","p","i","n","g",".","s","i","n","g","l","e","_","t","y","p","e">>,
       IndexDot \o <<"s","o","f","t","_","d","e","l","e","t","e","s",".","e","n","a","b","l","e","d">>,
       IndexDot \o <<"h","i","d","d","e","n">> >>

json_field_mapping ==
    << <<INDEX_NAME, QUERY_VECTOR>>,
       <<INDEX_NAME, QUERY_FILTERS>>,
       <<INDEX_NAME, QUERY_MUSTS>>,
       <<INDEX_NAME, QUERY_SHOULDS>>,
       <<INDEX_NAME, QUERY_FMNOS>>,
       <<INDEX_NAME, QUERY_WORDS>> >>

(***************************************************************************)
(* Sequences.                                                              *)
(***************************************************************************)
Range(q) == { q[i] : i \in DOMAIN q }

InSeq(x, q) == \E i \in DOMAIN q : q[i] = x

RECURSIVE Flatten(_)
Flatten(qq) ==
    IF qq = <<>> THEN <<>>
    ELSE IF Len(qq) = 1 THEN qq[1]
    ELSE LET h == Len(qq) \div 2
         IN  Flatten(SubSeq(qq, 1, h)) \o Flatten(SubSeq(qq, h + 1, Len(qq)))

RECURSIVE Join(_, _)
Join(sep, qq) ==
    IF qq = <<>> THEN <<>>
    ELSE IF Len(qq) = 1 THEN qq[1]
    ELSE LET h == Len(qq) \div 2
         IN  Join(sep, SubSeq(qq, 1, h)) \o sep \o Join(sep, SubSeq(qq, h + 1, Len(qq)))

StartsWith(text, pat) ==
    Len(pat) <= Len(text) /\ SubSeq(text, 1, Len(pat)) = pat

Contains(text, pat) ==
    \E i \in 1..(Len(text) - Len(pat) + 1) : SubSeq(text, i, i + Len(pat) - 1) = pat

(***************************************************************************)
(* JSON values and the dict operations the code uses on them.              *)
(***************************************************************************)
Str(text) == [s |-> text]
Lit(text) == [l |-> text]
Arr(items) == [a |-> items]
Obj(pairs) == [o |-> pairs]

IsStr(v) == DOMAIN v = {"s"}
IsLit(v) == DOMAIN v = {"l"}
IsArr(v) == DOMAIN v = {"a"}
IsObj(v) == DOMAIN v = {"o"}

Keys(v) == [i \in DOMAIN v.o |-> v.o[i][1]]

HasKey(v, k) == \E i \in DOMAIN v.o : v.o[i][1] = k

Get(v, k) == v.o[CHOOSE i \in DOMAIN v.o : v.o[i][1] = k][2]

\* del d[k]
Del(v, k) == Obj(SelectSeq(v.o, LAMBDA p : p[1] # k))

\* d[k] = x : in place when the key exists, appended otherwise
Put(v, k, x) ==
    IF HasKey(v, k)
    THEN Obj([i \in DOMAIN v.o |-> IF v.o[i][1] = k THEN <<k, x>> ELSE v.o[i]])
    ELSE Obj(Append(v.o, <<k, x>>))

(***************************************************************************)
(* Text operations of the Python runtime that update uses.                 *)
(***************************************************************************)
Whitespace == {" ", "\t", "\n", "\r", "\f"}

\* for line in file : each line keeps its terminating newline
RECURSIVE FileLines(_)
FileLines(text) ==
    IF text = <<>> THEN <<>>
    ELSE IF ~InSeq(NL, text) THEN <<text>>
    ELSE LET i == CHOOSE j \in DOMAIN text :
                      text[j] = NL /\ \A m \in 1..(j - 1) : text[m] # NL
         IN  <<SubSeq(text, 1, i)>> \o FileLines(SubSeq(text, i + 1, Len(text)))

\* line.rstrip('\n')
RECURSIVE rstrip_nl(_)
rstrip_nl(text) ==
    IF text # <<>> /\ text[Len(text)] = NL
    THEN rstrip_nl(SubSeq(text, 1, Len(text) - 1))
    ELSE text

RECURSIVE lstrip(_)
lstrip(text) ==
    IF text # <<>> /\ Head(text) \in Whitespace THEN lstrip(Tail(text)) ELSE text

RECURSIVE rstrip(_)
rstrip(text) ==
    IF text # <<>> /\ text[Len(text)] \in Whitespace
    THEN rstrip(SubSeq(text, 1, Len(text) - 1))
    ELSE text

\* word.strip()
strip(text) == rstrip(lstrip(text))

\* text.split(sep), sep one character
RECURSIVE split(_, _)
split(text, sep) ==
    IF ~InSeq(sep, text) THEN <<text>>
    ELSE LET i == CHOOSE j \in DOMAIN text :
                      text[j] = sep /\ \A m \in 1..(j - 1) : text[m] # sep
         IN  <<SubSeq(text, 1, i - 1)>> \o split(SubSeq(text, i + 1, Len(text)), sep)

\* text.replace(old, new) : leftmost occurrences, not overlapping
RECURSIVE replace(_, _, _)
replace(text, old, new) ==
    IF ~Contains(text, old) THEN text
    ELSE LET Occurs(j) == SubSeq(text, j, j + Len(old) - 1) = old
             i == CHOOSE j \in 1..(Len(text) - Len(old) + 1) :
                      Occurs(j) /\ \A m \in 1..(j - 1) : ~Occurs(m)
         IN  SubSeq(text, 1, i - 1) \o new
             \o replace(SubSeq(text, i + Len(old), Len(text)), old, new)

\* the escapes json.dumps writes inside a string
EscapeChar(c) ==
    CASE c = QUOTE -> <<BSL, QUOTE>>
      [] c = BSL -> <<BSL, BSL>>
      [] c = "\n" -> <<BSL, "n">>
      [] c = "\r" -> <<BSL, "r">>
      [] c = "\t" -> <<BSL, "t">>
      [] c = "\f" -> <<BSL, "f">>
      [] OTHER -> <<c>>

Escape(text) == Flatten([i \in DOMAIN text |-> EscapeChar(text[i])])

\* json.dumps(v), default separators
RECURSIVE json_dumps(_)
json_dumps(v) ==
    IF IsStr(v) THEN <<QUOTE>> \o Escape(v.s) \o <<QUOTE>>
    ELSE IF IsLit(v) THEN v.l
    ELSE IF IsArr(v)
    THEN <<"[">> \o Join(<<",", " ">>, [i \in DOMAIN v.a |-> json_dumps(v.a[i])]) \o <<"]">>
    ELSE <<"{">>
         \o Join(<<",", " ">>,
                 [i \in DOMAIN v.o |->
                     json_dumps(Str(v.o[i][1])) \o <<":", " ">> \o json_dumps(v.o[i][2])])
         \o <<"}">>

(***************************************************************************)
(* The document transforms of update and create_index.                     *)
(***************************************************************************)
\* update, line 178
ReadSynonyms(text) ==
    LET lines == FileLines(text)
    IN  [i \in DOMAIN lines |-> rstrip_nl(lines[i])]

\* update, lines 184-187
ReadStopwords(text) ==
    LET lines == FileLines(text)
        words(line) == LET w == split(rstrip_nl(line), ",")
                       IN  [i \in DOMAIN w |-> strip(w[i])]
    IN  Flatten([i \in DOMAIN lines |-> words(lines[i])])

StrList(texts) == Arr([i \in DOMAIN texts |-> Str(texts[i])])

\* update, lines 208-213
FilterUpdateable(settings) ==
    Obj(SelectSeq(settings.o, LAMBDA p : ~InSeq(p[1], non_updateable_settings)))

\* lines 149-151 and 219-221
DropPhoneticAnalyzer(analysis) ==
    IF HasKey(analysis, K_analyzer)
       /\ HasKey(Get(analysis, K_analyzer), K_phonetic_analyzer)
    THEN Put(analysis, K_analyzer, Del(Get(analysis, K_analyzer), K_phonetic_analyzer))
    ELSE analysis

\* lines 154-161 and 225-234
UpdateFilters(analysis, synonyms, stopwords) ==
    IF ~HasKey(analysis, K_filter) THEN analysis
    ELSE LET f0 == Get(analysis, K_filter)
             f1 == IF HasKey(f0, K_metaphone_filter) THEN Del(f0, K_metaphone_filter) ELSE f0
             f2 == IF HasKey(f1, K_synonym_filter)
                   THEN Put(f1, K_synonym_filter,
                            Put(Get(f1, K_synonym_filter), K_synonyms, StrList(synonyms)))
                   ELSE f1
             f3 == IF HasKey(f2, K_stop_filter)
                   THEN Put(f2, K_stop_filter,
                            Put(Get(f2, K_stop_filter), K_stopwords, StrList(stopwords)))
                   ELSE f2
         IN  Put(analysis, K_filter, f3)

\* update, lines 208-234 : the body of indices.put_settings
updateable_settings(settings, synonyms, stopwords) ==
    LET u == FilterUpdateable(settings)
    IN  IF HasKey(u, K_analysis)
        THEN Put(u, K_analysis,
                 UpdateFilters(DropPhoneticAnalyzer(Get(u, K_analysis)), synonyms, stopwords))
        ELSE u

\* create_index, lines 148-161 : the settings of indices.create
create_settings(settings) ==
    IF HasKey(settings, K_analysis)
    THEN Put(settings, K_analysis,
             UpdateFilters(DropPhoneticAnalyzer(Get(settings, K_analysis)), <<>>, <<>>))
    ELSE settings

\* update, lines 256-273
RECURSIVE remove_phonetic_refs(_)
RECURSIVE RemoveItems(_)
RemoveItems(items) ==
    IF items = <<>> THEN <<>>
    ELSE LET key == Head(items)[1]
             value == Head(items)[2]
             rest == RemoveItems(Tail(items))
         IN  IF key = K_fields /\ IsObj(value) /\ HasKey(value, K_ph)
             THEN LET kept == SelectSeq(value.o, LAMBDA p : p[1] # K_ph)
                      cleaned_fields ==
                          [i \in DOMAIN kept |-> <<kept[i][1], remove_phonetic_refs(kept[i][2])>>]
                  IN  IF cleaned_fields # <<>>
                      THEN <<<<key, Obj(cleaned_fields)>>>> \o rest
                      ELSE rest
             ELSE <<<<key, remove_phonetic_refs(value)>>>> \o rest

remove_phonetic_refs(obj) ==
    IF IsObj(obj) THEN Obj(RemoveItems(obj.o))
    ELSE IF IsArr(obj) THEN Arr([i \in DOMAIN obj.a |-> remove_phonetic_refs(obj.a[i])])
    ELSE obj

\* update, line 294 : the body of put_script for a script file
script_body(script) == json_dumps(script)

MustacheOpen == <<"{","{","#","t","o","J","s","o","n","}","}">>
MustacheClose == <<"{","{","/","t","o","J","s","o","n","}","}">>

\* update, lines 333-338
RECURSIVE ReplaceTokens(_, _, _)
ReplaceTokens(body_text, name, mappings) ==
    IF mappings = <<>> THEN body_text
    ELSE LET mapping == Head(mappings)
             next == IF name = mapping[1]
                     THEN replace(body_text,
                                  <<BSL, QUOTE>> \o mapping[2] \o <<BSL, QUOTE>>,
                                  MustacheOpen \o mapping[2] \o MustacheClose)
                     ELSE body_text
         IN  ReplaceTokens(next, name, Tail(mappings))

\* update, lines 314-322
TemplateBody(template, name) ==
    Obj(<< <<K_script,
             Obj(<< <<K_lang, Str(K_mustache)>>,
                    <<K_index, Str(name)>>,
                    <<K_source, Str(json_dumps(template))>> >>)>> >>)

\* update, lines 312-338 : the body of put_script for a template file
template_body(template, name) ==
    ReplaceTokens(json_dumps(TemplateBody(template, name)), name, json_field_mapping)

(***************************************************************************)
(* State of a migration run.                                               *)
(***************************************************************************)
VARIABLES
    pc,             \* position of the run in migrate / create_index / update
    exitCode,       \* exit status of the process, once pc = "exited"
    exiting,        \* a SystemExit is propagating through the finally clause
    raised,         \* the step whose except clause caught an exception, or "none"
    synonyms,       \* local of update, line 178
    stopwords,      \* local of update, lines 184-187
    i,              \* position of the script / template loop
    index,          \* the index in the engine: "absent", "open" or "closed"
    applied,        \* the updates the engine has stored
    log,            \* the engine calls issued so far, with their responses
    faults,         \* calls the engine may still fail or leave unacknowledged
    settingsFile,   \* schema/<index>/settings.json
    synonymsFile,   \* schema/<index>/synonyms.txt
    stopwordsFile,  \* schema/<index>/stopwords.txt
    mappingFile,    \* schema/<index>/mapping.json
    scriptFiles,    \* scripts/<index>/*.json
    templateFiles   \* templates/*.json

files == <<settingsFile, synonymsFile, stopwordsFile, mappingFile, scriptFiles, templateFiles>>
locals == <<synonyms, stopwords, i>>
engine == <<index, applied, log, faults>>
migration == <<pc, exitCode, exiting, raised, locals, files>>

\* the indexer, data_indexer/indexer.py : fetch_and_index_users and its caller
VARIABLES
    ipc,            \* position of the indexer in fetch_and_index_users
    api,            \* what the source API answers to requests.get
    config,         \* the environment opensearch_client reads: LOCAL, OPENSEARCH_HOSTS
    users,          \* local of fetch_and_index_users, line 89
    idx,            \* position of the loop over users, line 143 (0-based)
    indexed_count,  \* local of fetch_and_index_users, line 140
    errors,         \* local of fetch_and_index_users, line 141
    returned,       \* what each finished call gave its caller, with the index after it
    docs,           \* the documents of the index in the engine: id -> body
    autoIds         \* the ids the engine has generated so far

\* the query service, data_retrieval/controller.py : search_people
VARIABLES
    qpc,            \* position of the request handler
    request,        \* the validated query parameters of GET /search
    search_body,    \* the body sent to client.search
    response        \* the JSON envelope or the HTTP error given to the caller

indexer == <<ipc, api, config, users, idx, indexed_count, errors, returned, docs, autoIds>>
query == <<qpc, request, search_body, response>>
vars == <<pc, exitCode, exiting, raised, locals, engine, files, indexer, query>>

\* a file on disk: missing, text, parsable JSON or unparsable JSON
Missing == [missing |-> TRUE]
Invalid == [invalid |-> TRUE]
TextFile(text) == [text |-> text]
JsonFile(v) == [json |-> v]
IsMissing(f) == DOMAIN f = {"missing"}
IsInvalid(f) == DOMAIN f = {"invalid"}

\* what the source API answers to the indexer: no answer or an error status
\* (Unreachable), a body that is not JSON (Invalid), or a JSON document
Unreachable == [fail |-> TRUE]

\* the body of an engine call
NoBody == [none |-> TRUE]
JsonBody(v) == [json |-> v]
TextBody(text) == [text |-> text]

Updates == {"put_settings", "put_mapping", "put_script", "put_template"}

\* what the engine may answer: acknowledged, not acknowledged, or an exception
EngineResponses == IF faults > 0 THEN {"ack", "unack", "raise"} ELSE {"ack"}

Effect(op, state) ==
    CASE op = "create" -> "open"
      [] op = "close" -> "closed"
      [] op = "open" -> "open"
      [] OTHER -> state

\* one call of the client: the engine acts unless it raises ("acknowledged": false
\* tells that the change was not confirmed in time, not that it was not made)
EngineCall(op, body, res) ==
    /\ res \in EngineResponses
    /\ log' = Append(log, [op |-> op, body |-> body, res |-> res, was |-> index])
    /\ faults' = IF res = "ack" THEN faults ELSE faults - 1
    /\ index' = IF res = "raise" THEN index ELSE Effect(op, index)
    /\ applied' = IF res # "raise" /\ op \in Updates
                  THEN applied \cup {<<op, Len(log) + 1>>}
                  ELSE applied

\* the process ends: exit(code), or an exception nobody catches (status 1)
Exit(code) == pc' = "exited" /\ exitCode' = code

\* handleException, lines 360-363
handleException(step) == raised' = step

\* variant: the acknowledged flag of the response is not looked at
ProceedsUnchecked(res) == res # "raise"

\* variant: the except clause logs the exception and returns
ProceedsSwallowed(res) == res # "unack"

\* the run goes on after an update only when the call returned and was acknowledged:
\* lines 238-241, 280-283, 297-300, 342-345
Proceeds(res) == res = "ack"

\* variant: the index is reopened after the try statement, not in a finally clause
LeaveTryNoFinally(failed) ==
    /\ exiting' = FALSE
    /\ IF failed THEN Exit(1)
       ELSE pc' = "settings_finally" /\ exitCode' = exitCode

\* leaving the try block of the settings step, by its end or by SystemExit:
\* the finally clause runs next, lines 239-243
LeaveTry(failed) ==
    /\ exiting' = failed
    /\ pc' = "settings_finally"
    /\ exitCode' = exitCode

\* the step after the mapping update and after each loop body
AfterStep(step, n) ==
    CASE step = "mapping" ->
            IF Len(scriptFiles) > 0 THEN <<"scripts", 1>>
            ELSE IF Len(templateFiles) > 0 THEN <<"templates", 1>>
            ELSE <<"final_open", 0>>
      [] step = "scripts" ->
            IF n < Len(scriptFiles) THEN <<"scripts", n + 1>>
            ELSE IF Len(templateFiles) > 0 THEN <<"templates", 1>>
            ELSE <<"final_open", 0>>
      [] step = "templates" ->
            IF n < Len(templateFiles) THEN <<"templates", n + 1>>
            ELSE <<"final_open", 0>>

(***************************************************************************)
(* The steps of Migrations.migrate.                                        *)
(***************************************************************************)
\* migrate, line 356 : opensearch_client, lines 20-134
opensearch_client ==
    /\ pc = "client"
    /\ \E ok \in BOOLEAN :
          /\ ok \/ faults > 0
          /\ faults' = IF ok THEN faults ELSE faults - 1
          /\ IF ok THEN pc' = "create_index" /\ exitCode' = exitCode
                   ELSE Exit(1)
    /\ UNCHANGED <<exiting, raised, locals, index, applied, log, files>>
    /\ UNCHANGED <<indexer, query>>

\* create_index, lines 137-166
create_index ==
    /\ pc = "create_index"
    /\ \E ok \in BOOLEAN :
          /\ ok \/ faults > 0
          /\ IF ~ok
             \* indices.exists raises
             THEN /\ Exit(1)
                  /\ faults' = faults - 1
                  /\ UNCHANGED <<index, applied, log>>
             ELSE IF index # "absent"
             THEN /\ pc' = "close"
                  /\ UNCHANGED <<exitCode, engine>>
             ELSE IF IsInvalid(settingsFile)
             THEN /\ Exit(1)
                  /\ UNCHANGED engine
             ELSE LET settings == IF IsMissing(settingsFile) THEN Obj(<<>>)
                                  ELSE create_settings(settingsFile.json)
                      body == IF settings.o # <<>>
                              THEN JsonBody(Obj(<< <<K_settings, settings>> >>))
                              ELSE NoBody
                  IN  \E res \in EngineResponses :
                         /\ EngineCall("create", body, res)
                         /\ IF res = "raise" THEN Exit(1)
                            ELSE pc' = "close" /\ exitCode' = exitCode
    /\ UNCHANGED <<exiting, raised, locals, files>>
    /\ UNCHANGED <<indexer, query>>

\* variant: the close is inside the "if not index_exists" block, an index that
\* existed is not closed
close_created_only ==
    /\ pc = "close"
    /\ IF log # <<>> /\ log[Len(log)].op = "create"
       THEN \E res \in EngineResponses :
               /\ EngineCall("close", NoBody, res)
               /\ IF res = "raise" THEN Exit(1)
                  ELSE pc' = "synonyms" /\ exitCode' = exitCode
       ELSE /\ pc' = "synonyms"
            /\ UNCHANGED <<exitCode, engine>>
    /\ UNCHANGED <<exiting, raised, locals, files>>
    /\ UNCHANGED <<indexer, query>>

\* create_index, lines 168-172
close_index ==
    /\ pc = "close"
    /\ \E res \in EngineResponses :
          /\ EngineCall("close", NoBody, res)
          /\ IF res = "raise" THEN Exit(1)
             ELSE pc' = "synonyms" /\ exitCode' = exitCode
    /\ UNCHANGED <<exiting, raised, locals, files>>
    /\ UNCHANGED <<indexer, query>>

\* update, lines 176-179
read_synonyms ==
    /\ pc = "synonyms"
    /\ IF IsMissing(synonymsFile)
       THEN Exit(1) /\ synonyms' = synonyms
       ELSE /\ synonyms' = ReadSynonyms(synonymsFile.text)
            /\ pc' = "stopwords"
            /\ exitCode' = exitCode
    /\ UNCHANGED <<exiting, raised, stopwords, i, engine, files>>
    /\ UNCHANGED <<indexer, query>>

\* update, lines 182-188
read_stopwords ==
    /\ pc = "stopwords"
    /\ IF IsMissing(stopwordsFile)
       THEN Exit(1) /\ stopwords' = stopwords
       ELSE /\ stopwords' = ReadStopwords(stopwordsFile.text)
            /\ pc' = "settings"
            /\ exitCode' = exitCode
    /\ UNCHANGED <<exiting, raised, synonyms, i, engine, files>>
    /\ UNCHANGED <<indexer, query>>

\* update, lines 192-241 : the try block of the settings step and its except clause
update_settings ==
    /\ pc = "settings"
    /\ IF IsMissing(settingsFile)
       THEN /\ Exit(1)
            /\ UNCHANGED <<exiting, raised, engine>>
       ELSE IF IsInvalid(settingsFile)
       THEN /\ handleException("settings")
            /\ LeaveTry(TRUE)
            /\ UNCHANGED engine
       ELSE \E res \in EngineResponses :
               /\ EngineCall("put_settings",
                             JsonBody(updateable_settings(settingsFile.json, synonyms, stopwords)),
                             res)
               /\ IF res = "raise" THEN handleException("settings") ELSE raised' = raised
               /\ LeaveTry(~Proceeds(res))
    /\ UNCHANGED <<locals, files>>
    /\ UNCHANGED <<indexer, query>>

\* update, lines 243-247 : the finally clause of the settings step
settings_finally ==
    /\ pc = "settings_finally"
    /\ \E res \in EngineResponses :
          /\ EngineCall("open", NoBody, res)
          /\ IF res = "raise" \/ exiting THEN Exit(1)
             ELSE pc' = "mapping" /\ exitCode' = exitCode
    /\ exiting' = FALSE
    /\ UNCHANGED <<raised, locals, files>>
    /\ UNCHANGED <<indexer, query>>

\* update, lines 250-284
update_mapping ==
    /\ pc = "mapping"
    /\ IF IsMissing(mappingFile)
       THEN /\ Exit(1)
            /\ UNCHANGED <<raised, i, engine>>
       ELSE IF IsInvalid(mappingFile)
       THEN /\ handleException("mapping")
            /\ Exit(1)
            /\ UNCHANGED <<i, engine>>
       ELSE \E res \in EngineResponses :
               /\ EngineCall("put_mapping",
                             JsonBody(remove_phonetic_refs(mappingFile.json)), res)
               /\ IF res = "raise" THEN handleException("mapping") ELSE raised' = raised
               /\ IF Proceeds(res)
                  THEN /\ pc' = AfterStep("mapping", 0)[1]
                       /\ i' = AfterStep("mapping", 0)[2]
                       /\ exitCode' = exitCode
                  ELSE Exit(1) /\ i' = i
    /\ UNCHANGED <<exiting, synonyms, stopwords, files>>
    /\ UNCHANGED <<indexer, query>>

\* update, lines 287-301 : one pass of the script loop
update_script ==
    /\ pc = "scripts"
    /\ IF IsInvalid(scriptFiles[i])
       THEN /\ handleException("script")
            /\ Exit(1)
            /\ UNCHANGED <<i, engine>>
       ELSE \E res \in EngineResponses :
               /\ EngineCall("put_script", TextBody(script_body(scriptFiles[i].json)), res)
               /\ IF res = "raise" THEN handleException("script") ELSE raised' = raised
               /\ IF Proceeds(res)
                  THEN /\ pc' = AfterStep("scripts", i)[1]
                       /\ i' = AfterStep("scripts", i)[2]
                       /\ exitCode' = exitCode
                  ELSE Exit(1) /\ i' = i
    /\ UNCHANGED <<exiting, synonyms, stopwords, files>>
    /\ UNCHANGED <<indexer, query>>

\* update, lines 304-346 : one pass of the template loop
update_template ==
    /\ pc = "templates"
    /\ IF IsInvalid(templateFiles[i])
       THEN /\ handleException("template")
            /\ Exit(1)
            /\ UNCHANGED <<i, engine>>
       ELSE \E res \in EngineResponses :
               /\ EngineCall("put_template",
                             TextBody(template_body(templateFiles[i].json, INDEX_NAME)), res)
               /\ IF res = "raise" THEN handleException("template") ELSE raised' = raised
               /\ IF Proceeds(res)
                  THEN /\ pc' = AfterStep("templates", i)[1]
                       /\ i' = AfterStep("templates", i)[2]
                       /\ exitCode' = exitCode
                  ELSE Exit(1) /\ i' = i
    /\ UNCHANGED <<exiting, synonyms, stopwords, files>>
    /\ UNCHANGED <<indexer, query>>

\* update, lines 348-351
final_open ==
    /\ pc = "final_open"
    /\ \E res \in EngineResponses :
          /\ EngineCall("open", NoBody, res)
          /\ IF res = "raise" THEN Exit(1) ELSE Exit(0)
    /\ UNCHANGED <<exiting, raised, locals, files>>
    /\ UNCHANGED <<indexer, query>>

Next ==
    \/ opensearch_client
    \/ create_index
    \/ close_index
    \/ read_synonyms
    \/ read_stopwords
    \/ update_settings
    \/ settings_finally
    \/ update_mapping
    \/ update_script
    \/ update_template
    \/ final_open

(***************************************************************************)
(* The on-disk schema bundles the runs start from.                         *)
(***************************************************************************)
K_std == <<"s","t","d">>
K_name == <<"n","a","m","e">>
K_replicas == IndexDot \o <<"n","u","m","b","e","r","_","o","f","_","r","e","p","l","i","c","a","s">>
True == Lit(<<"t","r","u","e">>)
One == Lit(<<"1">>)

RECURSIVE Pick(_, _, _)
Pick(q, S, n) ==
    IF n > Len(q) THEN <<>>
    ELSE (IF n \in S THEN <<q[n]>> ELSE <<>>) \o Pick(q, S, n + 1)

\* the sub-sequences of q
SubSeqs(q) == { Pick(q, S, 1) : S \in SUBSET DOMAIN q }

\* the sequences over S of length at most n
SeqsUpTo(S, n) == UNION { [1..m -> S] : m \in 0..n }

AnalyzerEntries ==
    << <<K_phonetic_analyzer, Obj(<< <<K_filter, Arr(<<Str(K_metaphone_filter)>>)>> >>)>>,
       <<K_std, Obj(<< <<K_filter, Arr(<<Str(K_stop_filter)>>)>> >>)>>,
       <<K_name, Obj(<< <<K_filter, Arr(<<Str(K_stop_filter), Str(K_metaphone_filter)>>)>> >>)>> >>

FilterEntries ==
    << <<K_metaphone_filter, Obj(<< <<K_type, Str(<<"p">>)>> >>)>>,
       <<K_synonym_filter, Obj(<< <<K_type, Str(<<"s">>)>>, <<K_synonyms, Arr(<<>>)>> >>)>>,
       <<K_stop_filter, Obj(<< <<K_type, Str(<<"t">>)>> >>)>> >>

FlatEntries ==
    << <<non_updateable_settings[1], True>>,
       <<non_updateable_settings[2], One>>,
       <<K_replicas, One>> >>

NestedEntries ==
    { <<>>,
      << <<K_index, Obj(<< <<K_knn, True>> >>)>> >>,
      << <<K_index, Obj(<< <<<<"r">>, One>> >>)>> >> }

AnalysisEntries ==
    {<<>>} \cup
    { << <<K_analysis, Obj(an \o fi)>> >> :
        an \in {<<>>} \cup { << <<K_analyzer, Obj(e)>> >> : e \in SubSeqs(AnalyzerEntries) },
        fi \in {<<>>} \cup { << <<K_filter, Obj(e)>> >> : e \in SubSeqs(FilterEntries) } }

SettingsDocs ==
    { Obj(flat \o nested \o analysis) :
        flat \in SubSeqs(FlatEntries), nested \in NestedEntries, analysis \in AnalysisEntries }

DefaultSettings ==
    Obj(<< FlatEntries[1], FlatEntries[3],
           <<K_analysis, Obj(<< <<K_analyzer, Obj(AnalyzerEntries)>>,
                                <<K_filter, Obj(FilterEntries)>> >>)>> >>)

FileAlphabet == {"a", "b", ",", " ", NL}
Texts(n) == SeqsUpTo(FileAlphabet, n)
DefaultText == <<"a", ",", "b", NL>>

MapKeys == <<K_fields, K_ph, K_type>>

RECURSIVE TreesOfSize(_)
RECURSIVE PairsOfSize(_, _)
RECURSIVE ItemsOfSize(_)
\* the objects' items over the keys, in the keys' order, their values n nodes in all
PairsOfSize(keys, n) ==
    IF keys = <<>> THEN (IF n = 0 THEN {<<>>} ELSE {})
    ELSE PairsOfSize(Tail(keys), n)
         \cup UNION { { <<<<Head(keys), t>>>> \o p :
                          t \in TreesOfSize(j), p \in PairsOfSize(Tail(keys), n - j) } :
                      j \in 1..n }

\* the arrays' items, n nodes in all
ItemsOfSize(n) ==
    IF n = 0 THEN {<<>>}
    ELSE UNION { { <<t>> \o a : t \in TreesOfSize(j), a \in ItemsOfSize(n - j) } : j \in 1..n }

\* the JSON trees of n nodes
TreesOfSize(n) ==
    IF n = 1 THEN {Str(<<"x">>), Obj(<<>>), Arr(<<>>)}
    ELSE { Obj(p) : p \in PairsOfSize(MapKeys, n - 1) }
         \cup { Arr(a) : a \in ItemsOfSize(n - 1) }

MappingTrees(max) == UNION { TreesOfSize(n) : n \in 1..max }

DefaultMapping ==
    Obj(<< <<K_type, Obj(<< <<K_fields, Obj(<< <<K_ph, Str(<<"x">>)>>,
                                               <<K_std, Str(<<"x">>)>> >>)>> >>)>> >>)

Chunks == { <<"a">>, <<QUOTE>>, <<BSL>>, QUERY_WORDS, QUERY_VECTOR }
ChunkStrings(n) == { Flatten(c) : c \in SeqsUpTo(Chunks, n) }

TemplateDocs(n) ==
    { Obj(<< <<K_q, Str(s1)>>, <<K_b, Str(s2)>> >>) :
        s1 \in ChunkStrings(n), s2 \in ChunkStrings(n) }
    \cup { Obj(<< <<s1, Arr(<<Str(s2), One>>)>> >>) :
             s1 \in ChunkStrings(n), s2 \in ChunkStrings(n) }

DefaultTemplate == Obj(<< <<K_q, Str(QUERY_WORDS)>>, <<K_b, Arr(<<Str(QUERY_VECTOR)>>)>> >>)
DefaultScript == Obj(<< <<K_script, Obj(<< <<K_source, Str(<<"a">>)>> >>)>> >>)

(***************************************************************************)
(* Specifications.                                                         *)
(***************************************************************************)
\* the indexer before its first call
IndexerIdle ==
    /\ ipc = "fetch"
    /\ users = <<>>
    /\ idx = 0
    /\ indexed_count = 0
    /\ errors = <<>>
    /\ returned = <<>>
    /\ docs = {}
    /\ autoIds = 0

\* the query service before a request
QueryIdle ==
    /\ qpc = "idle"
    /\ request = [none |-> TRUE]
    /\ search_body = [none |-> TRUE]
    /\ response = [none |-> TRUE]

\* the indexer and the query service are not run
OthersIdle ==
    /\ IndexerIdle
    /\ api = Unreachable
    /\ config = "local"
    /\ QueryIdle

InitRun ==
    /\ OthersIdle
    /\ pc = "client"
    /\ exitCode = 0
    /\ exiting = FALSE
    /\ raised = "none"
    /\ synonyms = <<>>
    /\ stopwords = <<>>
    /\ i = 0
    /\ applied = {}
    /\ log = <<>>

InitDefaults(fs) ==
    /\ "settings" \in fs \/ settingsFile = JsonFile(DefaultSettings)
    /\ "synonyms" \in fs \/ synonymsFile = TextFile(DefaultText)
    /\ "stopwords" \in fs \/ stopwordsFile = TextFile(DefaultText)
    /\ "mapping" \in fs \/ mappingFile = JsonFile(DefaultMapping)
    /\ "scripts" \in fs \/ scriptFiles = <<JsonFile(DefaultScript)>>
    /\ "templates" \in fs \/ templateFiles = <<JsonFile(DefaultTemplate)>>

\* the directories of at most n files, all parsable or the last one unparsable (the
\* run ends at the first unparsable file)
FileLists(valid, n) ==
    { [k \in 1..m |-> valid] : m \in 0..n }
    \cup { [k \in 1..m |-> IF k = m THEN Invalid ELSE valid] : m \in 1..n }

\* the run, with the failures the engine and the files can produce
Init ==
    /\ InitRun
    /\ index \in {"absent", "open", "closed"}
    /\ faults = MaxFaults
    /\ settingsFile \in {JsonFile(DefaultSettings), Invalid, Missing}
    /\ synonymsFile \in {TextFile(DefaultText), Missing}
    /\ stopwordsFile \in {TextFile(DefaultText), Missing}
    /\ mappingFile \in {JsonFile(DefaultMapping), Invalid, Missing}
    /\ scriptFiles \in FileLists(JsonFile(DefaultScript), MaxScripts)
    /\ templateFiles \in FileLists(JsonFile(DefaultTemplate), MaxTemplates)

Spec == Init /\ [][Next]_vars

\* the run over the settings documents
InitSettings ==
    /\ InitRun
    /\ index \in {"absent", "open"}
    /\ faults = 0
    /\ settingsFile \in { JsonFile(d) : d \in SettingsDocs }
    /\ InitDefaults({"settings"})

SpecSettings == InitSettings /\ [][Next]_vars

\* the run over the synonyms and stopwords files
InitText ==
    /\ InitRun
    /\ index = "absent"
    /\ faults = 0
    /\ \/ synonymsFile \in { TextFile(t) : t \in Texts(MaxChars) } /\ InitDefaults({"synonyms"})
       \/ stopwordsFile \in { TextFile(t) : t \in Texts(MaxChars) } /\ InitDefaults({"stopwords"})

SpecText == InitText /\ [][Next]_vars

\* the run over the mapping trees
InitMapping ==
    /\ InitRun
    /\ index = "absent"
    /\ faults = 0
    /\ mappingFile \in { JsonFile(t) : t \in MappingTrees(MaxNodes) }
    /\ InitDefaults({"mapping"})

SpecMapping == InitMapping /\ [][Next]_vars

\* the run over the query templates
InitTemplate ==
    /\ InitRun
    /\ index = "absent"
    /\ faults = 0
    /\ templateFiles \in { <<JsonFile(t)>> : t \in TemplateDocs(MaxChunks) }
    /\ InitDefaults({"templates"})

SpecTemplate == InitTemplate /\ [][Next]_vars

(***************************************************************************)
(* The indexer: fetch_and_index_users, data_indexer/indexer.py.            *)
(***************************************************************************)
MaxUsers == 3
MaxRuns == 2

K_login == <<"l","o","g","i","n">>
K_uuid == <<"u","u","i","d">>
K_results == <<"r","e","s","u","l","t","s">>
K_nat == <<"n","a","t">>
K_number_of_shards == <<"n","u","m","b","e","r","_","o","f","_","s","h","a","r","d","s">>
K_number_of_replicas == <<"n","u","m","b","e","r","_","o","f","_","r","e","p","l","i","c","a","s">>
USER_ == <<"u","s","e","r","_">>
Null == Lit(<<"n","u","l","l">>)

Digits == <<"0","1","2","3","4","5","6","7","8","9">>

\* str(n), n a natural number
RECURSIVE str_int(_)
str_int(n) ==
    IF n < 10 THEN <<Digits[n + 1]>>
    ELSE str_int(n \div 10) \o <<Digits[(n % 10) + 1]>>

\* an exception in place of a value
Raises == [raise |-> TRUE]

\* v.get(k, default) : an AttributeError unless v is a dict; the value under k, null
\* included, when the key is there
py_get(v, k, default) ==
    IF ~IsObj(v) THEN Raises
    ELSE IF HasKey(v, k) THEN Get(v, k)
    ELSE default

\* line 146 : user.get('login', {}).get('uuid', f"user_{idx}")
doc_id(user, n) ==
    LET login == py_get(user, K_login, Obj(<<>>))
    IN  IF login = Raises THEN Raises
        ELSE py_get(login, K_uuid, Str(USER_ \o str_int(n)))

\* the ids the client leaves out of the request path: the engine then names the
\* document itself
SKIP_IN_PATH == {Null, Str(<<>>), Arr(<<>>)}

\* lines 93-98, 182-187, 191-196 : the payload of a call that indexed nothing
FailurePayload(msg) ==
    [success |-> FALSE, total_users |-> 0, indexed_count |-> 0, error |-> msg]

\* lines 167-177
ResultPayload ==
    LET result == [success |-> indexed_count > 0,
                   total_users |-> Len(users),
                   indexed_count |-> indexed_count,
                   index_name |-> INDEX_NAME]
    IN  IF errors # <<>> THEN result @@ [errors |-> errors] ELSE result

\* the call returns to its caller
Return(payload) ==
    /\ ipc' = "returned"
    /\ returned' = Append(returned, [result |-> payload, docs |-> docs])

\* variant: the exception is logged and raised again
RaiseToCaller(msg) ==
    /\ ipc' = "raised"
    /\ returned' = returned

\* lines 179-196 : the except clauses of fetch_and_index_users
ReturnFailure(msg) == Return(FailurePayload(msg))

FetchFailed == "Failed to fetch data from API"
Unexpected == "Unexpected error"
NoUsers == "No users found in API response"

\* the body of the indices.create call, lines 112-117
IndexerSettings ==
    Obj(<< <<K_settings, Obj(<< <<K_number_of_shards, One>>,
                                <<K_number_of_replicas, Lit(<<"0">>)>> >>)>> >>)

\* lines 84-100 : requests.get, raise_for_status, response.json, data.get
fetch_users ==
    /\ ipc = "fetch"
    /\ IF api = Unreachable
       THEN ReturnFailure(FetchFailed) /\ users' = users
       ELSE IF IsInvalid(api)
       \* JSONDecodeError is a RequestException in some versions of requests, a
       \* plain ValueError in others
       THEN (\E msg \in {FetchFailed, Unexpected} : ReturnFailure(msg)) /\ users' = users
       ELSE LET data == api.json
                found == py_get(data, K_results, Arr(<<>>))
            IN  IF found = Raises
                THEN ReturnFailure(Unexpected) /\ users' = users
                \* line 91, "if not users" : an empty list, or another falsy value
                ELSE IF found \in {Arr(<<>>), Obj(<<>>), Str(<<>>), Null}
                THEN Return(FailurePayload(NoUsers)) /\ users' = users
                ELSE /\ users' = found.a
                     /\ ipc' = "client"
                     /\ returned' = returned
    /\ UNCHANGED <<api, config, idx, indexed_count, errors, docs, autoIds>>
    /\ UNCHANGED <<engine, migration, query>>

\* line 103 : opensearch_client, lines 13-51
indexer_client ==
    /\ ipc = "client"
    /\ IF config = "nohost"
       THEN ReturnFailure(Unexpected) /\ faults' = faults
       ELSE \E ok \in BOOLEAN :
               /\ ok \/ (config = "remote" /\ faults > 0)
               /\ faults' = IF ok THEN faults ELSE faults - 1
               /\ IF ok THEN ipc' = "exists" /\ returned' = returned
                        ELSE ReturnFailure(Unexpected)
    /\ UNCHANGED <<api, config, users, idx, indexed_count, errors, docs, autoIds>>
    /\ UNCHANGED <<index, applied, log, migration, query>>

\* line 106 : client.indices.exists
index_exists ==
    /\ ipc = "exists"
    /\ \E res \in EngineResponses \ {"unack"} :
          /\ EngineCall("exists", NoBody, res)
          /\ IF res = "raise" THEN ReturnFailure(Unexpected)
             ELSE /\ ipc' = IF index = "absent" THEN "create" ELSE "open"
                  /\ returned' = returned
    /\ UNCHANGED <<api, config, users, idx, indexed_count, errors, docs, autoIds>>
    /\ UNCHANGED <<migration, query>>

\* lines 108-118 : client.indices.create, its response not looked at
indexer_create ==
    /\ ipc = "create"
    /\ \E res \in EngineResponses :
          /\ EngineCall("create", JsonBody(IndexerSettings), res)
          /\ IF res = "raise" THEN ReturnFailure(Unexpected)
             ELSE ipc' = "loop" /\ returned' = returned
    /\ UNCHANGED <<api, config, users, idx, indexed_count, errors, docs, autoIds>>
    /\ UNCHANGED <<migration, query>>

\* lines 119-131 : client.indices.open on an existing index; an exception that tells
\* the index is open already is logged, any other leads to the stats call
ensure_open ==
    /\ ipc = "open"
    /\ \E res \in EngineResponses, already \in BOOLEAN :
          /\ EngineCall("open", NoBody, res)
          /\ res # "raise" => already
          /\ ipc' = IF res = "raise" /\ ~already THEN "stats" ELSE "loop"
    /\ UNCHANGED <<api, config, users, idx, indexed_count, errors, returned, docs, autoIds>>
    /\ UNCHANGED <<migration, query>>

\* lines 132-137 : client.indices.stats, whose failure is logged as a warning
verify_stats ==
    /\ ipc = "stats"
    /\ \E res \in EngineResponses \ {"unack"} :
          EngineCall("stats", NoBody, res)
    /\ ipc' = "loop"
    /\ UNCHANGED <<api, config, users, idx, indexed_count, errors, returned, docs, autoIds>>
    /\ UNCHANGED <<migration, query>>

\* what the engine may answer to an index request: it refuses a closed index
IndexResponses ==
    IF index = "closed" THEN {"raise"} ELSE EngineResponses \ {"unack"}

\* the document ids of the index
DocIds == { d.id : d \in docs }

\* client.index(index, id, body, refresh=True) : the engine stores the document
\* under the id, or under an id of its own when the client sent none, and answers
\* created or updated
DocKey(id) == IF id \in SKIP_IN_PATH THEN [auto |-> autoIds + 1] ELSE id

IndexResult(id) == IF DocKey(id) \in DocIds THEN "updated" ELSE "created"

EngineIndex(id, body, res) ==
    /\ res \in IndexResponses
    /\ log' = Append(log, [op |-> "index", body |-> [id |-> id, doc |-> body],
                           res |-> res, was |-> index,
                           result |-> IF res = "raise" THEN "none" ELSE IndexResult(id)])
    /\ faults' = IF res = "raise" /\ index # "closed" THEN faults - 1 ELSE faults
    /\ docs' = IF res = "raise" THEN docs
               ELSE { d \in docs : d.id # DocKey(id) }
                    \cup {[id |-> DocKey(id), body |-> body]}
    /\ autoIds' = IF res = "raise" \/ id \notin SKIP_IN_PATH THEN autoIds ELSE autoIds + 1
    /\ UNCHANGED <<index, applied>>

\* the message of a record's failure, line 161
IndexError(n) == [user |-> n + 1]

\* variant: the try statement encloses the loop, the first failure ends it
StopAtFailure(n) == Len(users)

\* lines 143-144, 160-163 : the try statement is inside the loop, the record after
\* a failed one comes next
NextAfterFailure(n) == n + 1

\* lines 160-163 : the except clause of the loop
RecordFailed ==
    /\ errors' = Append(errors, IndexError(idx))
    /\ indexed_count' = indexed_count
    /\ idx' = NextAfterFailure(idx)

\* lines 143-163 : one pass of the loop over users
index_user ==
    /\ ipc = "loop"
    /\ idx < Len(users)
    /\ LET user == users[idx + 1]
           id == doc_id(user, idx)
       IN  IF id = Raises
           THEN /\ RecordFailed
                /\ UNCHANGED <<docs, autoIds, engine>>
           ELSE \E res \in IndexResponses :
                   /\ EngineIndex(id, user, res)
                   /\ IF res = "raise"
                      THEN RecordFailed
                      ELSE /\ errors' = errors
                           /\ indexed_count' =
                                 IF IndexResult(id) \in {"created", "updated"}
                                 THEN indexed_count + 1 ELSE indexed_count
                           /\ idx' = idx + 1
    /\ UNCHANGED <<ipc, api, config, users, returned>>
    /\ UNCHANGED <<migration, query>>

\* lines 165-177
return_result ==
    /\ ipc = "loop"
    /\ idx = Len(users)
    /\ Return(ResultPayload)
    /\ UNCHANGED <<api, config, users, idx, indexed_count, errors, docs, autoIds>>
    /\ UNCHANGED <<engine, migration, query>>

\* line 203 : the caller runs fetch_and_index_users again, the source unchanged
call_again ==
    /\ ipc = "returned"
    /\ Len(returned) < MaxRuns
    /\ ipc' = "fetch"
    /\ users' = <<>>
    /\ idx' = 0
    /\ indexed_count' = 0
    /\ errors' = <<>>
    /\ UNCHANGED <<api, config, returned, docs, autoIds>>
    /\ UNCHANGED <<engine, migration, query>>

NextIndexer ==
    \/ fetch_users
    \/ indexer_client
    \/ index_exists
    \/ indexer_create
    \/ ensure_open
    \/ verify_stats
    \/ index_user
    \/ return_result
    \/ call_again

\* the records the source API may hold
UserRecords ==
    { Obj(<< <<K_login, Obj(<< <<K_uuid, Str(<<"a">>)>> >>)>> >>),
      Obj(<< <<K_login, Obj(<< <<K_uuid, Str(<<"a">>)>> >>)>>, <<K_nat, Str(<<"x">>)>> >>),
      Obj(<< <<K_login, Obj(<< <<K_uuid, Str(<<"b">>)>> >>)>> >>),
      Obj(<< <<K_login, Obj(<<>>)>> >>),
      Obj(<<>>),
      Obj(<< <<K_login, Null>> >>),
      Obj(<< <<K_login, Obj(<< <<K_uuid, Null>> >>)>> >>) }

\* a record the engine is asked to index, and one whose key cannot be computed
FewRecords ==
    { Obj(<< <<K_login, Obj(<< <<K_uuid, Str(<<"a">>)>> >>)>> >>),
      Obj(<< <<K_login, Null>> >>) }

ApiDocs(records, n) ==
    { JsonFile(Obj(<< <<K_results, Arr(us)>> >>)) : us \in SeqsUpTo(records, n) }

\* the migration runner is not run
MigrationIdle ==
    /\ pc = "idle"
    /\ exitCode = 0
    /\ exiting = FALSE
    /\ raised = "none"
    /\ synonyms = <<>>
    /\ stopwords = <<>>
    /\ i = 0
    /\ applied = {}
    /\ log = <<>>
    /\ InitDefaults({})

\* the indexer, with the failures the source, the environment and the engine can
\* produce
InitIndexer ==
    /\ MigrationIdle
    /\ QueryIdle
    /\ IndexerIdle
    /\ index \in {"absent", "open", "closed"}
    /\ faults = MaxFaults
    \* local mode is remote mode whose client construction succeeds
    /\ config \in {"remote", "nohost"}
    /\ api \in {Unreachable, Invalid, JsonFile(Obj(<<>>)), JsonFile(Arr(<<>>))}
               \cup { JsonFile(Obj(<< <<K_results, Arr(us)>> >>)) :
                        us \in [1..MaxUsers -> FewRecords] }

SpecIndexer == InitIndexer /\ [][NextIndexer]_vars

\* the indexer over the records, the engine failing once at most
InitUpsert ==
    /\ MigrationIdle
    /\ QueryIdle
    /\ IndexerIdle
    /\ index \in {"absent", "open", "closed"}
    /\ faults \in {0, 1}
    /\ config = "local"
    /\ api \in ApiDocs(UserRecords, MaxUsers)

SpecUpsert == InitUpsert /\ [][NextIndexer]_vars

(***************************************************************************)
(* The query service: search_people, data_retrieval/controller.py.         *)
(***************************************************************************)
MaxPage == 3
MaxHits == 12
MaxSize == 100

\* the page sizes the requests are drawn from, within the validated range 1..MaxSize
Sizes == {1, 2, 3, 10, MaxSize}

\* the totals the engine reports
Totals == 0..MaxHits \cup {105}

\* hits.total as the engine writes it: a number, or an object that carries the
\* number under "value"
Scalar(n) == [n |-> n]
Dict(fields) == [d |-> fields]

\* line 162
from_param(page, size) == (page - 1) * size

\* lines 214-220
total_hits(total) ==
    IF DOMAIN total = {"d"}
    THEN (IF "value" \in DOMAIN total.d THEN total.d.value ELSE 0)
    ELSE total.n

\* variant: the division without the rounding up
total_pages_floor(hits, size) == hits \div size

\* line 233
total_pages(hits, size) ==
    IF hits > 0 THEN (hits + size - 1) \div size ELSE 0

\* lines 138-203 : a validated request (page >= 1, 1 <= size <= 100) and the body
\* built from it; of the body only the pagination is kept here
search_request ==
    /\ qpc = "idle"
    /\ \E page \in 1..MaxPage, size \in Sizes :
          /\ request' = [page |-> page, size |-> size]
          /\ search_body' = [from |-> from_param(page, size), size |-> size]
    /\ qpc' = "search"
    /\ response' = response
    /\ UNCHANGED <<engine, migration, indexer>>

\* lines 205-247 : client.search and the envelope made of its answer, or the
\* HTTP 500 made of its exception
engine_search ==
    /\ qpc = "search"
    /\ \E res \in EngineResponses \ {"unack"} :
          /\ EngineCall("search", search_body, res)
          /\ IF res = "raise"
             THEN response' = [status |-> 500]
             ELSE \E total \in { Scalar(n) : n \in Totals }
                                 \cup { Dict([value |-> n]) : n \in Totals }
                                 \cup { Dict([relation |-> "eq"]), Dict(<<>>) } :
                     response' = [success |-> TRUE,
                                  total_hits |-> total_hits(total),
                                  page |-> request.page,
                                  size |-> request.size,
                                  total_pages |-> total_pages(total_hits(total), request.size)]
    /\ qpc' = "responded"
    /\ UNCHANGED <<request, search_body>>
    /\ UNCHANGED <<migration, indexer>>

NextQuery ==
    \/ search_request
    \/ engine_search

InitQuery ==
    /\ MigrationIdle
    /\ IndexerIdle
    /\ api = Unreachable
    /\ config = "local"
    /\ QueryIdle
    /\ index = "open"
    /\ faults \in {0, 1}

SpecQuery == InitQuery /\ [][NextQuery]_vars

(***************************************************************************)
(* Properties.                                                             *)
(***************************************************************************)
\* the positions in the log of the calls of one operation
Calls(op) == { n \in DOMAIN log : log[n].op = op }

UpdateCalls == { n \in DOMAIN log : log[n].op \in Updates }

\* the settings a document names, each by its dotted path from the root, as the
\* engine reads the nested form {"index": {"knn": ...}} as index.knn
RECURSIVE SettingNames(_)
SettingNames(v) ==
    IF ~IsObj(v) THEN {}
    ELSE UNION { {v.o[n][1]}
                 \cup { v.o[n][1] \o <<".">> \o p : p \in SettingNames(v.o[n][2]) } :
                 n \in DOMAIN v.o }

\* C1: the payload submitted to indices.put_settings names none of the denylisted
\* creation-only settings, in the flat or in the nested form, whatever the settings
\* document on disk.
C1_NoDenylistedSetting ==
    \A n \in Calls("put_settings") :
        SettingNames(log[n].body.json) \cap Range(non_updateable_settings) = {}

\* the try block of the settings step was entered
SettingsTried == raised = "settings" \/ Calls("put_settings") # {}

\* C2: once the settings step has ended, whatever its outcome (acknowledged, not
\* acknowledged, unparsable settings.json, put_settings raising), indices.open was
\* called after the close and after the settings update.
C2_SettingsStepReopens ==
    (SettingsTried /\ pc # "settings_finally")
        => \E n \in Calls("open") :
              \A m \in Calls("put_settings") \cup Calls("close") : m < n

\* C2, its case: the settings update was not acknowledged, the process has exited
\* with status 1 and its last engine call was the open of the finally clause
C2_Witness ==
    /\ pc = "exited"
    /\ exitCode = 1
    /\ \E n \in Calls("put_settings") : log[n].res = "unack"
    /\ log # <<>>
    /\ log[Len(log)].op = "open"

Rank(op) ==
    CASE op = "create" -> 1
      [] op = "close" -> 2
      [] op = "put_settings" -> 3
      [] op = "put_mapping" -> 4
      [] op = "put_script" -> 5
      [] op = "put_template" -> 6

Once == {"create", "close", "put_settings", "put_mapping"}

\* C3: the engine operations of a run come in the order create (only on an absent
\* index), close, settings update, mapping update, script updates, template updates;
\* an update is submitted only after every earlier update was submitted and
\* acknowledged; and a run that ends with status 0 has submitted them all and its
\* last engine operation is indices.open.
C3_FixedOrder ==
    /\ \A m, n \in DOMAIN log \ Calls("open") :
          m < n => /\ Rank(log[m].op) <= Rank(log[n].op)
                   /\ log[m].op \in Once => log[m].op # log[n].op
    /\ \A n \in Calls("create") : log[n].was = "absent" /\ n = 1
    /\ \A n \in Calls("close") : log[n].was # "absent" /\ (n = 1 \/ Calls("create") = {1})
    /\ \A n \in UpdateCalls :
          /\ Calls("close") # {}
          /\ \A m \in UpdateCalls : m < n => log[m].res = "ack"
          /\ Rank(log[n].op) > 3 => Calls("put_settings") # {}
          /\ Rank(log[n].op) > 4 => Calls("put_mapping") # {}
          /\ Rank(log[n].op) > 5 => Cardinality(Calls("put_script")) = Len(scriptFiles)
    /\ (pc = "exited" /\ exitCode = 0)
          => /\ log[Len(log)].op = "open"
             /\ Cardinality(Calls("put_settings")) = 1
             /\ Cardinality(Calls("put_mapping")) = 1
             /\ Cardinality(Calls("put_script")) = Len(scriptFiles)
             /\ Cardinality(Calls("put_template")) = Len(templateFiles)
             /\ \A n \in UpdateCalls : log[n].res = "ack"

\* C3, its case: a run on an absent index with scripts and templates has ended
\* with status 0
C3_Witness ==
    /\ pc = "exited"
    /\ exitCode = 0
    /\ Calls("create") = {1}
    /\ Calls("put_script") # {}
    /\ Calls("put_template") # {}

\* C4: once an exception was raised in the settings, mapping, script or template
\* step, the run is in the finally clause or has exited, it exits with status 1,
\* no further update is submitted, and no applied update is ever taken back.
C4_ExceptionIsFatal ==
    /\ [](raised # "none"
            => /\ pc \in {"settings_finally", "exited"}
               /\ pc = "settings_finally" => exiting
               /\ pc = "exited" => exitCode = 1)
    /\ [][/\ applied \subseteq applied'
          /\ raised # "none"
                => \A n \in DOMAIN log' : n > Len(log) => log'[n].op \notin Updates]_vars

\* C4, its case: put_mapping raised after the settings update was applied; the
\* process has exited with status 1 and the settings update is still applied
C4_Witness ==
    /\ raised = "mapping"
    /\ pc = "exited"
    /\ exitCode = 1
    /\ \E n \in Calls("put_mapping") : log[n].res = "raise"
    /\ \E n \in Calls("put_settings") : <<"put_settings", n>> \in applied

\* C5: a run in which some engine response was not acknowledged ends with status 1,
\* whichever call it answered: create, close, put_settings, open, put_mapping or
\* put_script.
C5_UnacknowledgedExits ==
    (pc = "exited" /\ \E n \in DOMAIN log : log[n].res = "unack") => exitCode = 1

\* C6: remove_phonetic_refs is idempotent: applied to the mapping it has cleaned,
\* it returns that mapping unchanged.
C6_Idempotent ==
    \A n \in Calls("put_mapping") :
        remove_phonetic_refs(log[n].body.json) = log[n].body.json

\* the step of a path through an array: its n-th element
IdxKey(n) == [j \in 1..n |-> "#"]

\* the paths from the root of a tree to its nodes
RECURSIVE Paths(_)
Paths(v) ==
    {<<>>} \cup
    IF IsObj(v)
    THEN UNION { { <<v.o[n][1]>> \o p : p \in Paths(v.o[n][2]) } : n \in DOMAIN v.o }
    ELSE IF IsArr(v)
    THEN UNION { { <<IdxKey(n)>> \o p : p \in Paths(v.a[n]) } : n \in DOMAIN v.a }
    ELSE {}

RECURSIVE Node(_, _)
Node(v, p) ==
    IF p = <<>> THEN v
    ELSE IF IsObj(v) THEN Node(Get(v, Head(p)), Tail(p))
    ELSE Node(v.a[Len(Head(p))], Tail(p))

\* p leads to an object under a key "fields"
IsFieldsBlock(v, p) == p # <<>> /\ p[Len(p)] = K_fields /\ IsObj(Node(v, p))

\* what the stripping is to take out of the tree v: a "ph" entry of a fields block,
\* and a fields block whose only entry is "ph"
Stripped(v, p) ==
    \/ /\ IsFieldsBlock(v, p)
       /\ Keys(Node(v, p)) = <<K_ph>>
    \/ /\ Len(p) > 1
       /\ p[Len(p)] = K_ph
       /\ IsFieldsBlock(v, SubSeq(p, 1, Len(p) - 1))

\* p is stripped or lies below a stripped node
Gone(v, p) == \E j \in 1..Len(p) : Stripped(v, SubSeq(p, 1, j))

\* the node at p is in res what it is in src, its stripped entries apart
SameNode(src, res, p) ==
    LET a == Node(src, p)
        b == Node(res, p)
    IN  IF IsObj(a)
        THEN /\ IsObj(b)
             /\ Keys(b) = SelectSeq(Keys(a), LAMBDA k : ~Gone(src, Append(p, k)))
        ELSE IF IsArr(a) THEN IsArr(b) /\ Len(b.a) = Len(a.a)
        ELSE b = a

\* C7: the result of remove_phonetic_refs has no object under a key "fields" with a
\* key "ph", at any depth; a fields block whose only entry was "ph" is gone from its
\* parent; every other key, value and array element is kept, unchanged and in place.
C7_StripsEveryPhKeepsTheRest ==
    \A n \in Calls("put_mapping") :
        LET src == mappingFile.json
            res == log[n].body.json
        IN  /\ \A p \in Paths(res) : IsFieldsBlock(res, p) => ~HasKey(Node(res, p), K_ph)
            /\ \A p \in Paths(src) :
                  IF Gone(src, p) THEN p \notin Paths(res)
                  ELSE p \in Paths(res) /\ SameNode(src, res, p)

\* the value of analysis.filter.<name>.<key> in a settings payload
FilterValue(body, name, key) ==
    Get(Get(Get(Get(body, K_analysis), K_filter), name), key)

HasFilter(body, name) ==
    /\ HasKey(body, K_analysis)
    /\ HasKey(Get(body, K_analysis), K_filter)
    /\ HasKey(Get(Get(body, K_analysis), K_filter), name)

\* the lines of a text that hold at least one character
NonEmptyLines(text) == SelectSeq(split(text, NL), LAMBDA line : line # <<>>)

\* C8: synonym_filter.synonyms in the submitted settings holds exactly one rule per
\* non-empty line of synonyms.txt, in file order, however many blank lines it has.
C8_OneRulePerNonEmptyLine ==
    \A n \in Calls("put_settings") :
        HasFilter(log[n].body.json, K_synonym_filter)
            => FilterValue(log[n].body.json, K_synonym_filter, K_synonyms)
                   = StrList(NonEmptyLines(synonymsFile.text))

\* the comma-separated words of all the lines of a text, trimmed
TrimmedTokens(text) ==
    UNION { { strip(w) : w \in Range(split(line, ",")) } : line \in Range(split(text, NL)) }

\* C9: stop_filter.stopwords in the submitted settings is the set of the trimmed
\* tokens of stopwords.txt: no token has leading or trailing whitespace, none is
\* empty, none occurs twice.
C9_StopwordsAreATrimmedSet ==
    \A n \in Calls("put_settings") :
        HasFilter(log[n].body.json, K_stop_filter)
            => LET sw == FilterValue(log[n].body.json, K_stop_filter, K_stopwords).a
               IN  /\ \A k \in DOMAIN sw : strip(sw[k].s) = sw[k].s /\ sw[k].s # <<>>
                   /\ \A j, k \in DOMAIN sw : j # k => sw[j] # sw[k]
                   /\ { sw[k].s : k \in DOMAIN sw } = TrimmedTokens(stopwordsFile.text) \ {<<>>}

Tokens == { json_field_mapping[k][2] : k \in DOMAIN json_field_mapping }

Mustache(tok) == MustacheOpen \o tok \o MustacheClose

\* a quoted string as it stands in the source field of the serialized body
Quoted(text) == <<BSL, QUOTE>> \o text \o <<BSL, QUOTE>>

\* the strings of a JSON value, keys and values
RECURSIVE Strings(_)
Strings(v) ==
    IF IsStr(v) THEN {v.s}
    ELSE IF IsArr(v) THEN UNION { Strings(v.a[n]) : n \in DOMAIN v.a }
    ELSE IF IsObj(v) THEN UNION { {v.o[n][1]} \cup Strings(v.o[n][2]) : n \in DOMAIN v.o }
    ELSE {}

\* the serialized template with each string that is a placeholder token written as
\* its mustache form and everything else as json.dumps writes it
RECURSIVE ExpectedSource(_)
ExpectedSource(v) ==
    IF IsStr(v) THEN (IF v.s \in Tokens THEN Mustache(v.s) ELSE json_dumps(v))
    ELSE IF IsLit(v) THEN v.l
    ELSE IF IsArr(v)
    THEN <<"[">> \o Join(<<",", " ">>, [n \in DOMAIN v.a |-> ExpectedSource(v.a[n])]) \o <<"]">>
    ELSE <<"{">>
         \o Join(<<",", " ">>,
                 [n \in DOMAIN v.o |->
                     ExpectedSource(Str(v.o[n][1])) \o <<":", " ">> \o ExpectedSource(v.o[n][2])])
         \o <<"}">>

ExpectedBody(template) ==
    json_dumps(Obj(<< <<K_script,
                        Obj(<< <<K_lang, Str(K_mustache)>>,
                               <<K_index, Str(INDEX_NAME)>>,
                               <<K_source, Str(ExpectedSource(template))>> >>)>> >>))

\* the template file of the n-th engine call, a put_template
TemplateOf(n) == templateFiles[Cardinality({ m \in Calls("put_template") : m <= n })].json

\* C10: for a template that holds a placeholder token as a complete JSON string, the
\* body submitted to put_script holds the mustache form of that token, no longer
\* holds its quoted literal, and is otherwise the serialized body, character for
\* character.
C10_OnlyPlaceholdersRewritten ==
    \A n \in Calls("put_template") :
        LET template == TemplateOf(n)
            body == log[n].body.text
        IN  /\ \A tok \in Tokens \cap Strings(template) :
                  Contains(body, Mustache(tok)) /\ ~Contains(body, Quoted(tok))
            /\ Tokens \cap Strings(template) # {} => body = ExpectedBody(template)

\* the engine calls of the indexer's current call: those from its indices.exists on
RunLog ==
    LET first == CHOOSE n \in Calls("exists") : \A k \in Calls("exists") : k <= n
    IN  SubSeq(log, first, Len(log))

\* the index requests of the indexer's current call, in order
RunCalls == SelectSeq(RunLog, LAMBDA c : c.op = "index")

\* the indexer is in its loop, or has returned from it
InLoop ==
    \/ ipc = "loop"
    \/ ipc = "returned" /\ "index_name" \in DOMAIN returned[Len(returned)].result

\* the key a record is to be stored under: its login.uuid when it has one, the
\* positional key when it has no login block, a null one, or no uuid in it
ExpectedKey(user, n) ==
    LET login == IF IsObj(user) /\ HasKey(user, K_login) THEN Get(user, K_login) ELSE Null
    IN  IF IsObj(login) /\ HasKey(login, K_uuid) /\ Get(login, K_uuid) # Null
        THEN Get(login, K_uuid)
        ELSE Str(USER_ \o str_int(n))

Succeeded(c) == c.res # "raise" /\ c.result \in {"created", "updated"}

\* C11: in the loop and at its end, the index requests of the call are, in order,
\* one per record handled so far, each under the record's login.uuid or, for a
\* record without one (no login block or a null one included), under user_<idx>,
\* with the record as body; and indexed_count is the number of those requests the
\* engine answered with created or updated.
C11_EachRecordOnceUnderItsKey ==
    InLoop =>
        /\ Len(RunCalls) = idx
        /\ \A k \in 1..Len(RunCalls) :
              k <= Len(users)
                  => RunCalls[k].body = [id |-> ExpectedKey(users[k], k - 1), doc |-> users[k]]
        /\ indexed_count = Len(SelectSeq(RunCalls, Succeeded))
        /\ ipc = "returned"
              => returned[Len(returned)].result.indexed_count = indexed_count

\* the records among the first n whose key computation raised
LocalFailures(n) == { k \in 1..n : doc_id(users[k], k - 1) = Raises }

\* the payload of the last finished call
LastResult == returned[Len(returned)].result

\* C12: the loop is left only at the end of the list and by the return; the records
\* handled so far were all attempted (an index request, or a failure before it);
\* errors holds one message per failure, in the order of the records; and the
\* payload returned from the loop has total_users = the number of records fetched,
\* the collected errors, and success exactly when indexed_count > 0.
C12_FailuresAreCollected ==
    /\ [](InLoop =>
            /\ idx <= Len(users)
            /\ Len(RunCalls) + Cardinality(LocalFailures(idx)) = idx
            /\ Len(errors) = Cardinality(LocalFailures(idx))
                                + Len(SelectSeq(RunCalls, LAMBDA c : c.res = "raise"))
            /\ \A j, k \in DOMAIN errors : j < k => errors[j].user < errors[k].user
            /\ ipc = "returned"
                  => /\ idx = Len(users)
                     /\ LastResult.total_users = Len(api.json.o[1][2].a)
                     /\ LastResult.indexed_count = indexed_count
                     /\ LastResult.success <=> indexed_count > 0
                     /\ IF errors = <<>> THEN "errors" \notin DOMAIN LastResult
                        ELSE LastResult.errors = errors)
    /\ [][ipc = "loop" /\ ipc' # "loop" => idx = Len(users) /\ ipc' = "returned"]_vars

\* C12, its case: the first record failed, a later one was indexed, and the call
\* has returned success with the failure among its errors
C12_Witness ==
    /\ ipc = "returned"
    /\ "errors" \in DOMAIN LastResult
    /\ LastResult.errors[1].user = 1
    /\ LastResult.success
    /\ LastResult.indexed_count < LastResult.total_users

Stages == {"fetch", "client", "exists", "create"}

FailurePayloads == { FailurePayload(msg) : msg \in {FetchFailed, Unexpected, NoUsers} }

\* the engine call made in this step, if any
NewCall == IF Len(log') > Len(log) THEN log'[Len(log')] ELSE [op |-> "none", res |-> "none"]

\* C14: fetch_and_index_users never raises to its caller. A call that ends before
\* the loop returns a payload with success = false, total_users = 0,
\* indexed_count = 0 and an error message, and it ends so whenever the source
\* cannot be fetched or read, the client cannot be built, or indices.exists or
\* indices.create raises. Whatever indices.open and indices.stats answer on an
\* existing index, the call goes on to the loop.
C14_FailuresAreReturned ==
    /\ [](/\ ipc # "raised"
          /\ ipc = "returned" /\ (api = Unreachable \/ IsInvalid(api) \/ config = "nohost")
                => LastResult \in FailurePayloads)
    /\ [][/\ (ipc \in Stages /\ ipc' = "returned")
                => /\ Len(returned') = Len(returned) + 1
                   /\ returned'[Len(returned')].result \in FailurePayloads
          /\ (ipc = "fetch" /\ (api = Unreachable \/ IsInvalid(api))) => ipc' = "returned"
          /\ (ipc = "client" /\ (config = "nohost" \/ faults' < faults)) => ipc' = "returned"
          /\ (NewCall.op \in {"exists", "create"} /\ NewCall.res = "raise")
                => ipc' = "returned"
          /\ ipc \in {"open", "stats"} => ipc' \in {"stats", "loop"} /\ returned' = returned
         ]_vars

\* C14, its case: a first call ended by indices.exists raising has returned the
\* failure payload; in the second call indices.open raised and the records were
\* indexed all the same
C14_Witness ==
    /\ ipc = "returned"
    /\ Len(returned) = 2
    /\ returned[1].result = FailurePayload(Unexpected)
    /\ \E n \in Calls("exists") : log[n].res = "raise"
    /\ \E n \in Calls("open") : log[n].res = "raise"
    /\ LastResult.success

\* the least number of pages of the given size that hold the hits
Ceiling(hits, size) == CHOOSE k \in 0..hits : k * size >= hits /\ (k = 0 \/ (k - 1) * size < hits)

\* C13: in every search response with total_hits >= 0 and 1 <= size <= 100,
\* total_pages is the ceiling of total_hits / size, 0 for no hits and 11 for 105
\* hits of size 10; and the offset sent to the engine is (page - 1) * size, which
\* is not negative.
C13_Pagination ==
    /\ qpc # "idle"
          => /\ search_body.from = (request.page - 1) * request.size
             /\ search_body.from >= 0
             /\ search_body.size = request.size
    /\ (qpc = "responded" /\ "success" \in DOMAIN response)
          => ((response.total_hits >= 0 /\ response.size \in 1..MaxSize)
                => /\ response.total_pages = Ceiling(response.total_hits, response.size)
                   /\ response.total_hits = 0 => response.total_pages = 0
                   /\ (response.total_hits = 105 /\ response.size = 10)
                         => response.total_pages = 11)

\* C13, its case: the third page of 105 hits, 10 a page
C13_Witness ==
    /\ qpc = "responded"
    /\ "success" \in DOMAIN response
    /\ response.total_hits = 105
    /\ response.size = 10
    /\ response.total_pages = 11
    /\ search_body.from = 20

\* the steps of update, which follow create_index
InUpdate ==
    pc \in {"synonyms", "stopwords", "settings", "settings_finally", "mapping",
            "scripts", "templates", "final_open"}

\* C15: indices.create is issued only on an absent index; once create_index is
\* over indices.close has been issued, whether the index was created or existed;
\* and every indices.put_settings finds the index existing and closed, after a
\* close that returned and with no indices.open between the two.
C15_SettingsOnClosedIndex ==
    /\ \A n \in Calls("create") : log[n].was = "absent"
    /\ \A n \in Calls("close") : log[n].was # "absent"
    /\ InUpdate => \E c \in Calls("close") : log[c].res # "raise"
    /\ \A n \in Calls("put_settings") :
          /\ log[n].was = "closed"
          /\ \E c \in Calls("close") :
                /\ c < n
                /\ log[c].res # "raise"
                /\ \A k \in Calls("open") : ~(c < k /\ k < n)

\* C15, its case: the index existed and was open, no create was issued, and the
\* settings update was submitted after the close
C15_Witness ==
    /\ Calls("create") = {}
    /\ Calls("put_settings") # {}
    /\ log[1].op = "close"
    /\ log[1].was = "open"

\* the names under analysis.<kind> of a settings document
AnalysisNames(settings, kind) ==
    IF IsObj(settings) /\ HasKey(settings, K_analysis)
       /\ IsObj(Get(settings, K_analysis)) /\ HasKey(Get(settings, K_analysis), kind)
    THEN Range(Keys(Get(Get(settings, K_analysis), kind)))
    ELSE {}

\* the filters the analyzer of that name lists
FiltersOf(settings, name) ==
    LET analyzer == Get(Get(Get(settings, K_analysis), K_analyzer), name)
    IN  IF IsObj(analyzer) /\ HasKey(analyzer, K_filter) /\ IsArr(Get(analyzer, K_filter))
        THEN { f.s : f \in Range(Get(analyzer, K_filter).a) }
        ELSE {}

\* the settings payloads submitted so far, at index creation and at settings update
SettingsPayloads ==
    { Get(log[n].body.json, K_settings) : n \in { k \in Calls("create") : log[k].body # NoBody } }
    \cup { log[n].body.json : n \in Calls("put_settings") }

\* C16: no settings payload submitted, at creation or at update, has the analyzer
\* phonetic_analyzer or the filter metaphone_filter, and no analyzer left in a
\* payload lists a filter that settings.json defines and the payload no longer has.
C16_NoPhoneticNoDanglingFilter ==
    \A payload \in SettingsPayloads :
        /\ K_phonetic_analyzer \notin AnalysisNames(payload, K_analyzer)
        /\ K_metaphone_filter \notin AnalysisNames(payload, K_filter)
        /\ \A a \in AnalysisNames(payload, K_analyzer) :
              \A f \in FiltersOf(payload, a) :
                  f \in AnalysisNames(settingsFile.json, K_filter)
                      => f \in AnalysisNames(payload, K_filter)

\* create_index has closed the index
ClosedByCreateIndex == \E c \in Calls("close") : log[c].res # "raise"

\* C17: a run that has ended after create_index closed the index has left the index
\* open, whatever ended it: a missing synonyms.txt, stopwords.txt or settings.json,
\* an unparsable settings.json, a settings update that raised or was not
\* acknowledged, or a failure of the mapping, script or template step.
C17_NeverLeftClosed ==
    (pc = "exited" /\ ClosedByCreateIndex) => index = "open"

\* the records the source holds
ApiUsers == Get(api.json, K_results).a

\* the keys of the records, each its login.uuid or its positional fallback
RecordKeys == { ExpectedKey(ApiUsers[k], k - 1) : k \in DOMAIN ApiUsers }

\* no engine call has failed
NoFailure == \A n \in DOMAIN log : log[n].res # "raise"

\* C18: as long as no engine call fails, every later call of fetch_and_index_users
\* on the same records leaves the index with the document ids and bodies the first
\* call left and reports the indexed_count of the first, and the index never holds
\* more documents than the records have distinct keys.
C18_IdempotentUpsert ==
    NoFailure =>
        /\ \A j \in DOMAIN returned :
              /\ returned[j].docs = returned[1].docs
              /\ returned[j].result.indexed_count = returned[1].result.indexed_count
        /\ Cardinality(docs) <= Cardinality(RecordKeys)

====
